---- MODULE Spec2Model ----
(***************************************************************************)
(* The scan-to-reward ledger of QrScannerCamera.tsx.                       *)
(*                                                                         *)
(* Every device that shows the scanner page runs its own QrScannerCamera   *)
(* component against the one REST store (ra-data-simple-rest).  A scanner  *)
(* is a process; processQrScan suspends at every `await dataProvider...`,  *)
(* so each store call is one atomic step of the store and the code that    *)
(* follows it up to the next await belongs to the same step.  update is a  *)
(* PUT of the whole record (previousData is not a precondition), create an *)
(* append.  Every store call may also reject, which lands in the catch     *)
(* block of processQrScan.                                                 *)
(***************************************************************************)
EXTENDS Integers, Sequences, FiniteSets, TLC

\* ------------------------------------------------------------------ bounds
\* Largest scans_required of a member type in the initial store.
MaxRequired == 3
\* Number of handleScan calls that start processing, over all scanners.
MaxCalls == 2
\* Number of store calls that reject, over all scanners.
MaxFaults == 1
\* Number of rows of the Airtable table.
MaxRecords == 2
\* Number of rows of pending_members before the first run.
MaxExisting == 1
\* Number of calls of airtableFetch.
MaxRuns == 2
\* Number of calls of airtableFetch's awaits that reject.
MaxSyncFaults == 1
\* Number of calls of authProvider methods.
MaxAuthOps == 4

\* ------------------------------------------------------- program constants
\* useState(30), setTimer(30)
TimerStart == 30
\* pagination: { page: 1, perPage: 1000 }
PerPage == 1000

\* ------------------------------------------------------------- the universe
Scanners == {"s1", "s2"}
MemberIds == {1, 2}
TypeIds == {1, 2}
Codes == {"q1", "q2"}

\* null / undefined of the source, per shape
NoMember ==
    [id |-> 0, qr_code |-> "", member_type_id |-> 0, points |-> 0,
     total_scans |-> 0, points_to_reward |-> 0, reward_due |-> FALSE,
     reward_earned_at |-> 0, last_scan_at |-> 0]
NoType ==
    [id |-> 0, scans_required |-> 0, reward_type_id |-> 0, total_scans |-> 0]
NoDialog ==
    [memberType |-> 0, memberName |-> 0, points |-> 0, scansRequiredForReward |-> 0]

VARIABLES
    \* the store
    members, member_types, scan_logs, redeem_logs,
    \* new Date(): the number of instants read so far
    clock,
    \* per scanner: position in handleScan/processQrScan and its locals
    pc, qrCode, member, memberType, memberUpdateData, rewardDue,
    \* per scanner: the component's useState cells
    scanningPaused, openDialog, timer, rewardDueState, dialogContent,
    \* per scanner: the last notify(...) it showed
    notice,
    \* history: the initial store, calls started, overlap of two calls, per
    \* member what the calls resolved to it have done, and rejected store calls
    members0, member_types0, calls, overlap, ledger, faults,
    \* history, per scanner: the store calls of its current (or, when idle,
    \* last) processQrScan call, in the order they completed
    callLog

\* airtableFetch of lib.ts
VARIABLES
    \* the Airtable table and the pending_members resource
    airtableRecords, pending_members,
    \* position in airtableFetch and its locals: `members`, `existingMembers`,
    \* `newMembers`, and the index of the for loop over newMembers
    syncPc, airtableMembers, existingMembers, newMembers, cursor,
    \* history: one record per run started, and rejected calls
    runs, syncFaults

\* authProvider
VARIABLES
    \* localStorage: the items "username" and "role", <<>> when absent and
    \* <<value>> when present
    lsUsername, lsRole,
    \* position in login and its locals `username`, `password` and `user`
    loginPc, loginUsername, loginPassword, loginUser,
    \* history: calls made, the last call that changed or removed the session,
    \* the last call started, how the last login ended, and what the last
    \* checkAuth did
    authOps, lastChange, lastCall, loginResult, lastCheck

storeVars == <<members, member_types, scan_logs, redeem_logs>>
localVars == <<qrCode, member, memberType, memberUpdateData, rewardDue>>
uiVars == <<scanningPaused, openDialog, timer, rewardDueState, dialogContent, notice>>
initVars == <<members0, member_types0>>
histVars == <<initVars, calls, overlap, ledger, faults>>
syncVars ==
    <<airtableRecords, pending_members, syncPc, airtableMembers, existingMembers,
      newMembers, cursor, runs, syncFaults>>
authVars ==
    <<lsUsername, lsRole, loginPc, loginUsername, loginPassword, loginUser, authOps,
      lastChange, lastCall, loginResult, lastCheck>>
vars ==
    <<storeVars, clock, pc, localVars, uiVars, histVars, callLog, syncVars, authVars>>

\* ------------------------------------------------------------ the store
\* dataProvider.getList('members', {pagination: {page: 1, perPage: 1},
\* sort: {field: 'id', order: 'ASC'}, filter: {qr_code: qrCode}}):
\* the first page of one record, lowest id first.
GetListMembers(store, code) ==
    LET hits == {i \in DOMAIN store : store[i].qr_code = code}
    IN  IF hits = {} THEN <<>>
        ELSE <<store[CHOOSE i \in hits : \A j \in hits : i <= j]>>

\* -------------------------------------------- processQrScan, steps 3 and 4
newMemberPoints(m) ==
    m.points + 1

newPointsToReward_fromOldPoints(m, t) ==
    t.scans_required - m.points

newPointsToReward(m, t) ==
    t.scans_required - newMemberPoints(m)

RewardDue_strict(m, t) ==
    newPointsToReward(m, t) < 0

RewardDue(m, t) ==
    newPointsToReward(m, t) <= 0

MemberUpdateData_noCount(m, t, now) ==
    [m EXCEPT
        !.points = IF RewardDue(m, t) THEN 0 ELSE newMemberPoints(m),
        !.points_to_reward = newPointsToReward(m, t),
        !.reward_due = RewardDue(m, t),
        !.reward_earned_at =
            IF RewardDue(m, t) /\ m.reward_earned_at = 0
            THEN now ELSE m.reward_earned_at,
        !.last_scan_at = now]

MemberUpdateData_noReset(m, t, now) ==
    [m EXCEPT
        !.total_scans = m.total_scans + 1,
        !.points = newMemberPoints(m),
        !.points_to_reward = newPointsToReward(m, t),
        !.reward_due = RewardDue(m, t),
        !.reward_earned_at =
            IF RewardDue(m, t) /\ m.reward_earned_at = 0
            THEN now ELSE m.reward_earned_at,
        !.last_scan_at = now]

MemberUpdateData(m, t, now) ==
    [m EXCEPT
        !.total_scans = m.total_scans + 1,
        !.points = IF RewardDue(m, t) THEN 0 ELSE newMemberPoints(m),
        !.points_to_reward = newPointsToReward(m, t),
        !.reward_due = RewardDue(m, t),
        !.reward_earned_at =
            IF RewardDue(m, t) /\ m.reward_earned_at = 0
            THEN now ELSE m.reward_earned_at,
        !.last_scan_at = now]

MemberTypeUpdateData(t) ==
    [t EXCEPT !.total_scans = t.total_scans + 1]

ScanLogData_blank(code) ==
    [scanned_value |-> ""]

ScanLogData(code) ==
    [scanned_value |-> code]

RedeemLogData_typeAsMember(m, t) ==
    [member_id |-> t.id, reward_type_id |-> t.reward_type_id]

RedeemLogData(m, t) ==
    [member_id |-> m.id, reward_type_id |-> t.reward_type_id]

DialogData_rawPoints(m, t) ==
    [memberType |-> t.id,
     memberName |-> m.id,
     points |-> newMemberPoints(m),
     scansRequiredForReward |-> t.scans_required]

DialogData(m, t) ==
    [memberType |-> t.id,
     memberName |-> m.id,
     points |-> IF RewardDue(m, t) THEN 0 ELSE newMemberPoints(m),
     scansRequiredForReward |-> t.scans_required]

\* ------------------------------------------------------------------- Init
\* The initial store: member type 1 exists; member 1 is of type 1 with code
\* "q1"; member 2 either shares that code, or has code "q2" and is of type 1
\* or of type 2, which the store does not hold.
InitTypes ==
    {[t \in {1} |-> [id |-> t, scans_required |-> r, reward_type_id |-> t,
                     total_scans |-> 0]] : r \in 1..MaxRequired}

InitMember(i, code, t, p, types) ==
    [id |-> i, qr_code |-> code, member_type_id |-> t, points |-> p,
     total_scans |-> 0,
     points_to_reward |-> IF t \in DOMAIN types THEN types[t].scans_required - p ELSE 0,
     reward_due |-> FALSE, reward_earned_at |-> 0, last_scan_at |-> 0]

\* airtableFetch has not run: an empty table and an empty resource
SyncOff ==
    /\ airtableRecords = <<>>
    /\ pending_members = <<>>
    /\ syncPc = "idle"
    /\ airtableMembers = <<>>
    /\ existingMembers = <<>>
    /\ newMembers = <<>>
    /\ cursor = 0
    /\ runs = <<>>
    /\ syncFaults = 0

\* nobody has logged in: localStorage holds no session
AuthOff ==
    /\ lsUsername = <<>>
    /\ lsRole = <<>>
    /\ loginPc = "idle"
    /\ loginUsername = ""
    /\ loginPassword = ""
    /\ loginUser = [password |-> "", role |-> ""]
    /\ loginResult = "none"
    /\ authOps = 0
    /\ lastChange = [op |-> "none", username |-> ""]
    /\ lastCall = [op |-> "none", status |-> 0]
    /\ lastCheck = "none"

ScannersInit ==
    /\ callLog = [s \in Scanners |-> <<>>]
    /\ member_types \in InitTypes
    /\ \E ct \in {<<"q1", 1>>, <<"q2", 1>>, <<"q2", 2>>} :
         \E p1 \in 0..member_types[1].scans_required :
            members = [i \in MemberIds |->
                         IF i = 1 THEN InitMember(1, "q1", 1, p1, member_types)
                         ELSE InitMember(2, ct[1], ct[2], 0, member_types)]
    /\ scan_logs = <<>>
    /\ redeem_logs = <<>>
    /\ clock = 0
    /\ pc = [s \in Scanners |-> "idle"]
    /\ qrCode = [s \in Scanners |-> ""]
    /\ member = [s \in Scanners |-> NoMember]
    /\ memberType = [s \in Scanners |-> NoType]
    /\ memberUpdateData = [s \in Scanners |-> NoMember]
    /\ rewardDue = [s \in Scanners |-> FALSE]
    /\ scanningPaused = [s \in Scanners |-> FALSE]
    /\ openDialog = [s \in Scanners |-> FALSE]
    /\ timer = [s \in Scanners |-> TimerStart]
    /\ rewardDueState = [s \in Scanners |-> FALSE]
    /\ dialogContent = [s \in Scanners |-> NoDialog]
    /\ notice = [s \in Scanners |-> "none"]
    /\ members0 = members
    /\ member_types0 = member_types
    /\ calls = 0
    /\ overlap = FALSE
    /\ faults = 0
    /\ ledger = [i \in MemberIds |-> [upd |-> 0, updDue |-> 0, ok |-> 0, okDue |-> 0]]

Init ==
    /\ SyncOff
    /\ AuthOff
    /\ ScannersInit

\* ------------------------------------------------------ handleScan's tail
InFlight(s) ==
    pc[s] # "idle"

ClearLocals(s) ==
    /\ qrCode' = [qrCode EXCEPT ![s] = ""]
    /\ member' = [member EXCEPT ![s] = NoMember]
    /\ memberType' = [memberType EXCEPT ![s] = NoType]
    /\ memberUpdateData' = [memberUpdateData EXCEPT ![s] = NoMember]
    /\ rewardDue' = [rewardDue EXCEPT ![s] = FALSE]

\* the store call scanner s awaited has completed
Logged(s, ok) ==
    callLog' = [callLog EXCEPT ![s] = Append(@, [op |-> pc[s], ok |-> ok])]

ReturnNull_staysPaused(s, msg) ==
    /\ pc' = [pc EXCEPT ![s] = "idle"]
    /\ notice' = [notice EXCEPT ![s] = msg]
    /\ ClearLocals(s)
    /\ UNCHANGED <<scanningPaused, openDialog, timer, rewardDueState, dialogContent>>

\* processQrScan returned null: notify(msg), then `setScanningPaused(false)`
ReturnNull(s, msg) ==
    /\ pc' = [pc EXCEPT ![s] = "idle"]
    /\ notice' = [notice EXCEPT ![s] = msg]
    /\ scanningPaused' = [scanningPaused EXCEPT ![s] = FALSE]
    /\ ClearLocals(s)
    /\ UNCHANGED <<openDialog, timer, rewardDueState, dialogContent>>

\* the awaited store call rejects: the catch block of processQrScan
Reject_retries(s) ==
    /\ faults < MaxFaults
    /\ faults' = faults + 1
    /\ Logged(s, FALSE)
    /\ UNCHANGED <<storeVars, clock, pc, localVars, uiVars, initVars, calls, overlap, ledger>>

Reject(s) ==
    /\ faults < MaxFaults
    /\ faults' = faults + 1
    /\ ReturnNull(s, "error")
    /\ Logged(s, FALSE)
    /\ UNCHANGED <<storeVars, clock, initVars, calls, overlap, ledger>>

\* processQrScan returned dialogData: the `if (dialogData)` branch
ReturnDialog(s, dialogData) ==
    /\ pc' = [pc EXCEPT ![s] = "idle"]
    /\ dialogContent' = [dialogContent EXCEPT ![s] = dialogData]
    /\ openDialog' = [openDialog EXCEPT ![s] = TRUE]
    /\ rewardDueState' = [rewardDueState EXCEPT ![s] = (dialogData.points = 0)]
    /\ timer' = [timer EXCEPT ![s] = TimerStart]
    /\ notice' = [notice EXCEPT ![s] = "success"]
    /\ ClearLocals(s)
    /\ UNCHANGED scanningPaused

Completed(s) ==
    LET i == member[s].id
    IN  ledger' = [ledger EXCEPT
            ![i].ok = @ + 1,
            ![i].okDue = @ + (IF rewardDue[s] THEN 1 ELSE 0)]

\* ---------------------------------------------------------------- actions
\* handleScan up to `await processQrScan(qrCode)` and on to the first await
HandleScan_noPause(s) ==
    /\ ~scanningPaused[s]
    /\ calls < MaxCalls
    /\ \E code \in Codes : qrCode' = [qrCode EXCEPT ![s] = code]
    /\ pc' = [pc EXCEPT ![s] = "getList"]
    /\ calls' = calls + 1
    /\ overlap' = (overlap \/ \E o \in Scanners \ {s} : InFlight(o))
    /\ UNCHANGED <<storeVars, clock, member, memberType, memberUpdateData, rewardDue>>
    /\ UNCHANGED <<scanningPaused, openDialog, timer, rewardDueState, dialogContent, notice>>
    /\ UNCHANGED <<initVars, ledger, faults>>
    /\ callLog' = [callLog EXCEPT ![s] = <<>>]
    /\ UNCHANGED <<syncVars, authVars>>

\* handleScan past `if (scanningPaused || !data) return;`, up to the first
\* await of processQrScan.  The flag is the code's only guard.
HandleScan(s) ==
    /\ ~scanningPaused[s]
    /\ calls < MaxCalls
    /\ \E code \in Codes : qrCode' = [qrCode EXCEPT ![s] = code]
    /\ scanningPaused' = [scanningPaused EXCEPT ![s] = TRUE]
    /\ pc' = [pc EXCEPT ![s] = "getList"]
    /\ calls' = calls + 1
    /\ overlap' = (overlap \/ \E o \in Scanners \ {s} : InFlight(o))
    /\ UNCHANGED <<storeVars, clock, member, memberType, memberUpdateData, rewardDue>>
    /\ UNCHANGED <<openDialog, timer, rewardDueState, dialogContent, notice>>
    /\ UNCHANGED <<initVars, ledger, faults>>
    /\ callLog' = [callLog EXCEPT ![s] = <<>>]
    /\ UNCHANGED <<syncVars, authVars>>

\* `if (scanningPaused || !data) return;`
HandleScanPaused(s) ==
    /\ scanningPaused[s]
    /\ UNCHANGED vars

GetList_logsMiss(s) ==
    /\ pc[s] = "getList"
    /\ \/ Reject(s)
       \/ /\ GetListMembers(members, qrCode[s]) = <<>>
          /\ ReturnNull(s, "no_member")
          /\ Logged(s, TRUE)
          /\ scan_logs' = Append(scan_logs, ScanLogData(qrCode[s]))
          /\ UNCHANGED <<members, member_types, redeem_logs, clock, histVars>>
       \/ /\ GetListMembers(members, qrCode[s]) # <<>>
          /\ member' = [member EXCEPT ![s] = GetListMembers(members, qrCode[s])[1]]
          /\ pc' = [pc EXCEPT ![s] = "getOne"]
          /\ UNCHANGED <<qrCode, memberType, memberUpdateData, rewardDue, uiVars>>
          /\ Logged(s, TRUE)
          /\ UNCHANGED <<storeVars, clock, histVars>>
    /\ UNCHANGED <<syncVars, authVars>>

\* 1. await dataProvider.getList('members', ...) and the code up to the next await
GetList(s) ==
    /\ pc[s] = "getList"
    /\ \/ Reject(s)
       \/ /\ GetListMembers(members, qrCode[s]) = <<>>
          /\ ReturnNull(s, "no_member")
          /\ Logged(s, TRUE)
          /\ UNCHANGED <<storeVars, clock, histVars>>
       \/ /\ GetListMembers(members, qrCode[s]) # <<>>
          /\ member' = [member EXCEPT ![s] = GetListMembers(members, qrCode[s])[1]]
          /\ pc' = [pc EXCEPT ![s] = "getOne"]
          /\ UNCHANGED <<qrCode, memberType, memberUpdateData, rewardDue, uiVars>>
          /\ Logged(s, TRUE)
          /\ UNCHANGED <<storeVars, clock, histVars>>
    /\ UNCHANGED <<syncVars, authVars>>

\* 2. await dataProvider.getOne('member_types', ...), then steps 3 and 4
GetOne(s) ==
    /\ pc[s] = "getOne"
    /\ \/ Reject(s)
       \/ /\ member[s].member_type_id \notin DOMAIN member_types
          /\ ReturnNull(s, "no_member_type")
          /\ Logged(s, TRUE)
          /\ UNCHANGED <<storeVars, clock, histVars>>
       \/ /\ member[s].member_type_id \in DOMAIN member_types
          /\ LET t == member_types[member[s].member_type_id]
                 now == clock + 1
             IN  /\ memberType' = [memberType EXCEPT ![s] = t]
                 /\ rewardDue' = [rewardDue EXCEPT ![s] = RewardDue(member[s], t)]
                 /\ memberUpdateData' = [memberUpdateData EXCEPT ![s] =
                                            MemberUpdateData(member[s], t, now)]
                 /\ clock' = now
          /\ pc' = [pc EXCEPT ![s] = "updateMember"]
          /\ UNCHANGED <<qrCode, member, uiVars>>
          /\ Logged(s, TRUE)
          /\ UNCHANGED <<storeVars, histVars>>
    /\ UNCHANGED <<syncVars, authVars>>

UpdateMember_thenScanLog(s) ==
    /\ pc[s] = "updateMember"
    /\ \/ Reject(s)
       \/ /\ members' = [members EXCEPT ![member[s].id] = memberUpdateData[s]]
          /\ ledger' = [ledger EXCEPT
                ![member[s].id].upd = @ + 1,
                ![member[s].id].updDue =
                    @ + (IF memberUpdateData[s].reward_due THEN 1 ELSE 0)]
          /\ pc' = [pc EXCEPT ![s] = "createScanLog"]
          /\ UNCHANGED <<localVars, uiVars>>
          /\ UNCHANGED <<member_types, scan_logs, redeem_logs, clock>>
          /\ Logged(s, TRUE)
          /\ UNCHANGED <<initVars, calls, overlap, faults>>
    /\ UNCHANGED <<syncVars, authVars>>

\* 5. await dataProvider.update('members', ...)
UpdateMember(s) ==
    /\ pc[s] = "updateMember"
    /\ \/ Reject(s)
       \/ /\ members' = [members EXCEPT ![member[s].id] = memberUpdateData[s]]
          /\ ledger' = [ledger EXCEPT
                ![member[s].id].upd = @ + 1,
                ![member[s].id].updDue =
                    @ + (IF memberUpdateData[s].reward_due THEN 1 ELSE 0)]
          /\ pc' = [pc EXCEPT ![s] = "updateMemberType"]
          /\ UNCHANGED <<localVars, uiVars>>
          /\ UNCHANGED <<member_types, scan_logs, redeem_logs, clock>>
          /\ Logged(s, TRUE)
          /\ UNCHANGED <<initVars, calls, overlap, faults>>
    /\ UNCHANGED <<syncVars, authVars>>

\* await dataProvider.update('member_types', ...)
UpdateMemberType(s) ==
    /\ pc[s] = "updateMemberType"
    /\ \/ Reject(s)
       \/ /\ member_types' = [member_types EXCEPT
                ![memberType[s].id] = MemberTypeUpdateData(memberType[s])]
          /\ pc' = [pc EXCEPT ![s] = "createScanLog"]
          /\ UNCHANGED <<localVars, uiVars>>
          /\ Logged(s, TRUE)
          /\ UNCHANGED <<members, scan_logs, redeem_logs, clock, histVars>>
    /\ UNCHANGED <<syncVars, authVars>>

\* 6. await dataProvider.create('scan_logs', ...); without a reward the call
\* returns here
CreateScanLog(s) ==
    /\ pc[s] = "createScanLog"
    /\ \/ Reject(s)
       \/ /\ scan_logs' = Append(scan_logs, ScanLogData(qrCode[s]))
          /\ IF rewardDue[s]
             THEN /\ pc' = [pc EXCEPT ![s] = "createRedeemLog"]
                  /\ UNCHANGED <<localVars, uiVars, ledger>>
             ELSE /\ ReturnDialog(s, DialogData(member[s], memberType[s]))
                  /\ Completed(s)
          /\ UNCHANGED <<members, member_types, redeem_logs, clock>>
          /\ Logged(s, TRUE)
          /\ UNCHANGED <<initVars, calls, overlap, faults>>
    /\ UNCHANGED <<syncVars, authVars>>

\* 7. await dataProvider.create('redeem_logs', ...) and the return
CreateRedeemLog(s) ==
    /\ pc[s] = "createRedeemLog"
    /\ \/ Reject(s)
       \/ /\ redeem_logs' = Append(redeem_logs, RedeemLogData(member[s], memberType[s]))
          /\ ReturnDialog(s, DialogData(member[s], memberType[s]))
          /\ Completed(s)
          /\ UNCHANGED <<members, member_types, scan_logs, clock>>
          /\ Logged(s, TRUE)
          /\ UNCHANGED <<initVars, calls, overlap, faults>>
    /\ UNCHANGED <<syncVars, authVars>>

\* handleCloseDialog (the button, the Dialog's onClose, or the timer at 0):
\* the setters, then window.location.reload() remounts the component
HandleCloseDialog(s) ==
    /\ openDialog[s]
    /\ openDialog' = [openDialog EXCEPT ![s] = FALSE]
    /\ scanningPaused' = [scanningPaused EXCEPT ![s] = FALSE]
    /\ timer' = [timer EXCEPT ![s] = TimerStart]
    /\ dialogContent' = [dialogContent EXCEPT ![s] = NoDialog]
    /\ rewardDueState' = [rewardDueState EXCEPT ![s] = FALSE]
    /\ notice' = [notice EXCEPT ![s] = "none"]
    /\ UNCHANGED <<storeVars, clock, pc, localVars, histVars, callLog>>
    /\ UNCHANGED <<syncVars, authVars>>

\* The store-side behaviour of the scanners.  The dialog's countdown only
\* decides when handleCloseDialog runs, which here may happen at any time the
\* dialog is open.
Next ==
    \E s \in Scanners :
        \/ HandleScan(s)
        \/ HandleScanPaused(s)
        \/ GetList(s)
        \/ GetOne(s)
        \/ UpdateMember(s)
        \/ UpdateMemberType(s)
        \/ CreateScanLog(s)
        \/ CreateRedeemLog(s)
        \/ HandleCloseDialog(s)

Spec ==
    Init /\ [][Next]_vars

\* ================================================================ claims
Quiet ==
    \A s \in Scanners : ~InFlight(s)

RECURSIVE Sum(_, _)
Sum(f, S) ==
    IF S = {} THEN 0
    ELSE LET x == CHOOSE y \in S : TRUE IN f[x] + Sum(f, S \ {x})

RedeemCount(i) ==
    Cardinality({k \in DOMAIN redeem_logs : redeem_logs[k].member_id = i})

ScanCount(code) ==
    Cardinality({k \in DOMAIN scan_logs : scan_logs[k].scanned_value = code})

WithCode(code) ==
    {i \in MemberIds : members[i].qr_code = code}

OfType(t) ==
    {i \in MemberIds : members[i].member_type_id = t}

\* the scanner has read the member and not yet issued its update of it
ReadPending(s) ==
    pc[s] \in {"getOne", "updateMember"}

\* the step is scanner s's successful update of its member
MemberWritten(s) ==
    pc[s] = "updateMember" /\ pc'[s] = "updateMemberType"

\* C1: two calls with the same code that both complete, from a member with
\* points = scans_required - 1 (scans_required >= 2, so that only the first
\* of the two crosses the threshold): exactly one redeem log exists
\* afterwards and the member's total_scans has grown by exactly 2.
C1_TwoScansOneReward ==
    \A i \in MemberIds :
        ( /\ Quiet
          /\ ledger[i].ok = 2
          /\ ledger[i].upd = 2
          /\ members[i].member_type_id \in DOMAIN member_types0
          /\ member_types0[members[i].member_type_id].scans_required >= 2
          /\ members0[i].points =
                member_types0[members[i].member_type_id].scans_required - 1 )
        => /\ RedeemCount(i) = 1
           /\ members[i].total_scans = members0[i].total_scans + 2

\* C2: calls that resolve to the same member are serialized: no two calls
\* hold, at the same time, a read of the same member that neither has
\* written back yet.
C2_SameMemberSerialized ==
    \A s1, s2 \in Scanners :
        (s1 # s2 /\ ReadPending(s1) /\ ReadPending(s2))
        => member[s1].id # member[s2].id

\* C3: after N successful, non-overlapping scans of a member, none of which
\* reached the threshold, total_scans and points have both grown by N.
C3_MonotonicCount ==
    \A i \in MemberIds :
        ( /\ ~overlap
          /\ ledger[i].upd = ledger[i].ok
          /\ ledger[i].updDue = 0 )
        => /\ members[i].total_scans = members0[i].total_scans + ledger[i].ok
           /\ members[i].points = members0[i].points + ledger[i].ok

C3_Witness ==
    \E i \in MemberIds :
        /\ ~overlap
        /\ Quiet
        /\ ledger[i].ok = 2
        /\ ledger[i].upd = 2
        /\ ledger[i].updDue = 0
        /\ members[i].points = members0[i].points + 2

\* C4: when the points a scan read plus one reach scans_required, the member
\* that scan stores has points = 0, reward_due = TRUE, points_to_reward <= 0.
C4_RewardReset ==
    [][\A s \in Scanners :
         (MemberWritten(s) /\ member[s].points + 1 >= memberType[s].scans_required)
         => /\ members'[member[s].id].points = 0
            /\ members'[member[s].id].reward_due
            /\ members'[member[s].id].points_to_reward <= 0]_vars

C4_Witness ==
    \E s \in Scanners :
        /\ pc[s] = "updateMemberType"
        /\ member[s].points + 1 >= memberType[s].scans_required
        /\ members[member[s].id].points = 0
        /\ members[member[s].id].reward_due

\* C5: once a member's reward_earned_at is set, no later scan changes it.
C5_FirstEarnStable ==
    [][\A i \in MemberIds :
         members[i].reward_earned_at # 0
         => members'[i].reward_earned_at = members[i].reward_earned_at]_vars

\* C6: every member whose type the store holds has
\* 0 <= points <= scans_required of that type.
C6_PointsInRange ==
    \A i \in MemberIds :
        members[i].member_type_id \in DOMAIN member_types
        => /\ 0 <= members[i].points
           /\ members[i].points <= member_types[members[i].member_type_id].scans_required

C6_Witness ==
    \E i \in MemberIds :
        /\ members[i].member_type_id \in DOMAIN member_types0
        /\ members0[i].points = member_types0[members[i].member_type_id].scans_required
        /\ ledger[i].upd = 2
        /\ members[i].points = 1

\* C7: the reward_due a scan stores is TRUE exactly when the points it read
\* plus one are >= scans_required of the member's type.
C7_RewardDueIffCrossing ==
    [][\A s \in Scanners :
         MemberWritten(s)
         => (members'[member[s].id].reward_due
             <=> member[s].points + 1 >= memberType[s].scans_required)]_vars

C7_Witness ==
    \E s \in Scanners :
        /\ pc[s] = "updateMemberType"
        /\ member[s].points + 1 < memberType[s].scans_required
        /\ ~members[member[s].id].reward_due
        /\ ledger[member[s].id].updDue = 1

\* C8 as stated: once no call is in flight, a member has as many redeem logs
\* as scans have stored it with reward_due = TRUE, rejected writes included.
C8_RedeemPerStoredReward ==
    Quiet => \A i \in MemberIds : RedeemCount(i) = ledger[i].updDue

\* C8 amended: a member never has more redeem logs than scans that stored it
\* with reward_due = TRUE; once no call is in flight it has exactly one per
\* such scan whose later writes all succeeded; a step adds at most one redeem
\* log, and only as the last write of a call whose rewardDue is TRUE.
C8_RedeemPerCompletedReward ==
    /\ [](\A i \in MemberIds :
            /\ RedeemCount(i) <= ledger[i].updDue
            /\ Quiet => RedeemCount(i) = ledger[i].okDue)
    /\ [][redeem_logs' # redeem_logs
          => /\ Len(redeem_logs') = Len(redeem_logs) + 1
             /\ \E s \in Scanners :
                  /\ pc[s] = "createRedeemLog"
                  /\ rewardDue[s]
                  /\ member[s].points + 1 >= memberType[s].scans_required
                  /\ pc'[s] = "idle"]_vars

C8_Witness ==
    \E i \in MemberIds :
        /\ Quiet
        /\ ledger[i].updDue = 2
        /\ ledger[i].okDue = 1
        /\ RedeemCount(i) = 1

\* C9 as stated: once no call is in flight, there are as many scan logs as
\* the members' total_scans have grown in all.
C9_ScanLogPerTotalScans ==
    Quiet =>
        Len(scan_logs) =
            Sum([i \in MemberIds |-> members[i].total_scans - members0[i].total_scans],
                MemberIds)

\* C9 amended: for every code, the scan logs carrying it are at most the
\* member updates applied by scans of that code and at least the scans of
\* that code that completed; every scan log carries a scanned code.
C9_ScanLogPerCommittedScan ==
    /\ \A code \in Codes :
         /\ ScanCount(code) <= Sum([i \in MemberIds |-> ledger[i].upd], WithCode(code))
         /\ ScanCount(code) >= Sum([i \in MemberIds |-> ledger[i].ok], WithCode(code))
    /\ \A k \in DOMAIN scan_logs : scan_logs[k].scanned_value \in Codes

C9_Witness ==
    /\ Quiet
    /\ faults = 1
    /\ Len(scan_logs) = 1
    /\ \E i \in MemberIds : ledger[i].upd = 2 /\ ledger[i].ok = 1

\* C10: after calls that all completed successfully, each for a different
\* member, a type's total_scans is its initial value plus the number of those
\* calls for members of the type.
C10_TypeTotalScans ==
    ( /\ Quiet
      /\ faults = 0
      /\ calls = Sum([i \in MemberIds |-> ledger[i].ok], MemberIds)
      /\ \A i \in MemberIds : ledger[i].ok <= 1 )
    => \A t \in DOMAIN member_types :
          member_types[t].total_scans =
              member_types0[t].total_scans
              + Sum([i \in MemberIds |-> ledger[i].ok], OfType(t))

\* ================================================ the dialog's countdown
\* The scanner whose countdown is followed; the other one stays idle.
TimerScanners == {"s1"}

Tick_byTwo(s) ==
    /\ openDialog[s]
    /\ timer[s] > 0
    /\ timer' = [timer EXCEPT ![s] = @ - 2]
    /\ UNCHANGED <<storeVars, clock, pc, localVars, histVars, callLog, syncVars, authVars>>
    /\ UNCHANGED <<scanningPaused, openDialog, rewardDueState, dialogContent, notice>>

\* the interval set while `openDialog && timer > 0` fires:
\* setTimer((prevTimer) => prevTimer - 1)
Tick(s) ==
    /\ openDialog[s]
    /\ timer[s] > 0
    /\ timer' = [timer EXCEPT ![s] = @ - 1]
    /\ UNCHANGED <<storeVars, clock, pc, localVars, histVars, callLog, syncVars, authVars>>
    /\ UNCHANGED <<scanningPaused, openDialog, rewardDueState, dialogContent, notice>>

\* the effect `if (timer === 0 && openDialog) handleCloseDialog()`
AutoClose(s) ==
    /\ timer[s] = 0
    /\ HandleCloseDialog(s)

InitTimer ==
    /\ Init
    /\ members[2].qr_code = "q2"
    /\ members[2].member_type_id = 1

NextTimer ==
    \E s \in TimerScanners :
        \/ HandleScan(s)
        \/ HandleScanPaused(s)
        \/ GetList(s)
        \/ GetOne(s)
        \/ UpdateMember(s)
        \/ UpdateMemberType(s)
        \/ CreateScanLog(s)
        \/ CreateRedeemLog(s)
        \/ HandleCloseDialog(s)
        \/ Tick(s)
        \/ AutoClose(s)

\* The interval fires every second while the dialog is open, and effects run
\* after every render.
SpecTimer ==
    /\ InitTimer
    /\ [][NextTimer]_vars
    /\ \A s \in TimerScanners : WF_vars(Tick(s)) /\ WF_vars(AutoClose(s))

\* C23: a dialog opens with the timer at 30; while it is open the timer only
\* goes down, by one at a time; a step taken with the timer at 0 that changes
\* the dialog closes it, un-pauses scanning, puts the timer back to 30 and
\* clears the dialog content; and an open dialog is eventually closed.
C23_CountdownCloses ==
    /\ [](\A s \in TimerScanners :
            /\ timer[s] \in 0..TimerStart
            /\ ~openDialog[s] => timer[s] = TimerStart)
    /\ [][\A s \in TimerScanners :
            /\ (~openDialog[s] /\ openDialog'[s]) => timer'[s] = TimerStart
            /\ (openDialog[s] /\ openDialog'[s] /\ timer'[s] # timer[s])
               => (timer[s] > 0 /\ timer'[s] = timer[s] - 1)
            /\ (openDialog[s] /\ timer[s] = 0
                /\ <<openDialog[s], timer[s]>> # <<openDialog'[s], timer'[s]>>)
               => /\ ~openDialog'[s]
                  /\ ~scanningPaused'[s]
                  /\ timer'[s] = TimerStart
                  /\ dialogContent'[s] = NoDialog]_vars
    /\ \A s \in TimerScanners : openDialog[s] ~> ~openDialog[s]

C23_Witness ==
    \E s \in TimerScanners :
        /\ openDialog[s]
        /\ timer[s] = 0
        /\ scanningPaused[s]
        /\ dialogContent[s] # NoDialog

\* ================================================== airtableFetch (lib.ts)
RecordIds == {"rec1", "rec2"}
Emails == {"a@x.com", "A@x.com", "b@x.com"}
Statuses == {200, 400, 500}

\* String.prototype.toLowerCase on the e-mail addresses of the model
ToLower(e) ==
    IF e = "A@x.com" THEN "a@x.com" ELSE e

\* the rows of the Airtable table: record.id and record.fields.Email
AirtableRecord ==
    [id : RecordIds, Email : Emails]

RECURSIVE SeqsUpTo(_, _)
SeqsUpTo(S, n) ==
    IF n = 0 THEN {<<>>}
    ELSE LET shorter == SeqsUpTo(S, n - 1)
         IN  shorter \cup {Append(q, x) : q \in {r \in shorter : Len(r) = n - 1}, x \in S}

\* airtableData.records.map(record => ({airtable_id: record.id, ...}))
MapRecord(record) ==
    [airtable_id |-> record.id, email |-> record.Email, status |-> "pending",
     source |-> "Airtable"]

MapRecords(records) ==
    [k \in DOMAIN records |-> MapRecord(records[k])]

\* response.status >= 400
FetchFailed_above400(status) ==
    status > 400

FetchFailed(status) ==
    status >= 400

\* getList('pending_members', {pagination: {page: 1, perPage: 1000}, ...})
FirstPage(rows) ==
    IF Len(rows) <= PerPage THEN rows ELSE SubSeq(rows, 1, PerPage)

existingAirtableIds(existing) ==
    {existing[k].airtable_id : k \in DOMAIN existing}

existingEmails(existing) ==
    {ToLower(existing[k].email) : k \in DOMAIN existing}

IsNew_caseSensitive(m, existing) ==
    /\ m.airtable_id \notin existingAirtableIds(existing)
    /\ m.email \notin existingEmails(existing)

\* the predicate of members.filter(...)
IsNew(m, existing) ==
    /\ m.airtable_id \notin existingAirtableIds(existing)
    /\ ToLower(m.email) \notin existingEmails(existing)

NewMembers_unfiltered(candidates, existing) ==
    candidates

NewMembers(candidates, existing) ==
    SelectSeq(candidates, LAMBDA m : IsNew(m, existing))

\* dataProvider.create('pending_members', {data: member}): the store adds the id
Created(rows, m) ==
    Append(rows, [id |-> Len(rows) + 1, airtable_id |-> m.airtable_id,
                  email |-> m.email, status |-> m.status, source |-> m.source])

\* no two rows share an airtable_id or an e-mail address up to case
Unique(rows) ==
    \A j, k \in DOMAIN rows :
        j # k => /\ rows[j].airtable_id # rows[k].airtable_id
                 /\ ToLower(rows[j].email) # ToLower(rows[k].email)

\* The table holds up to MaxRecords rows, the resource up to MaxExisting rows
\* with no airtable_id and no e-mail address twice; the scanners stay idle.
\* one state of the scanners and their store, for the specifications of
\* the other modules
ScannersOff ==
    /\ ScannersInit
    /\ member_types[1].scans_required = 1
    /\ members[2].qr_code = "q2" /\ members[2].member_type_id = 1
    /\ members[1].points = 0

InitSync ==
    /\ ScannersOff
    /\ AuthOff
    /\ airtableRecords \in SeqsUpTo(AirtableRecord, MaxRecords)
    /\ \E rows \in SeqsUpTo(AirtableRecord, MaxExisting) :
         /\ pending_members = [k \in DOMAIN rows |->
                                 [id |-> k, airtable_id |-> rows[k].id,
                                  email |-> rows[k].Email, status |-> "pending",
                                  source |-> "Airtable"]]
         /\ Unique(pending_members)
    /\ syncPc = "idle"
    /\ airtableMembers = <<>>
    /\ existingMembers = <<>>
    /\ newMembers = <<>>
    /\ cursor = 0
    /\ runs = <<>>
    /\ syncFaults = 0

scannerVars == <<storeVars, clock, pc, localVars, uiVars, histVars, callLog>>

\* the history record of the run in progress
ThisRun == runs[Len(runs)]

ClearSyncLocals ==
    /\ airtableMembers' = <<>>
    /\ existingMembers' = <<>>
    /\ newMembers' = <<>>
    /\ cursor' = 0

\* a call of airtableFetch(): runs up to `await fetch(...)`
StartSync ==
    /\ syncPc = "idle"
    /\ Len(runs) < MaxRuns
    /\ syncPc' = "fetch"
    /\ runs' = Append(runs, [outcome |-> "running", before |-> pending_members,
                             candidates |-> <<>>, existing |-> <<>>,
                             attempted |-> <<>>, created |-> 0, status |-> 0,
                             returned |-> <<>>])
    /\ UNCHANGED <<airtableRecords, pending_members, airtableMembers,
                   existingMembers, newMembers, cursor, syncFaults>>
    /\ UNCHANGED <<scannerVars, authVars>>

\* an error thrown inside the outer try: the run ends without its result
SyncThrows(run) ==
    /\ syncPc' = "idle"
    /\ ClearSyncLocals
    /\ runs' = [runs EXCEPT ![Len(runs)] = [run EXCEPT !.outcome = "failed"]]
    /\ UNCHANGED <<airtableRecords, pending_members>>

\* `Promise<void>`: the promise resolves with no value, written <<>> (a
\* value v would be <<v>>)
ReturnValue(run) ==
    <<>>

\* airtableFetch returns after the for loop
SyncReturns(run) ==
    /\ syncPc' = "idle"
    /\ ClearSyncLocals
    /\ runs' = [runs EXCEPT ![Len(runs)] =
                    [run EXCEPT !.outcome = "done", !.returned = ReturnValue(run)]]

\* `await fetch(...)` rejects, or a later await of the outer try rejects
SyncRejected ==
    /\ syncPc \in {"fetch", "getList"}
    /\ syncFaults < MaxSyncFaults
    /\ syncFaults' = syncFaults + 1
    /\ SyncThrows(ThisRun)
    /\ UNCHANGED <<scannerVars, authVars>>

\* the response of fetch: the status test, response.json() and the map
FetchResponse ==
    /\ syncPc = "fetch"
    /\ \E status \in Statuses :
         IF FetchFailed(status)
         THEN SyncThrows([ThisRun EXCEPT !.status = status])
         ELSE /\ airtableMembers' = MapRecords(airtableRecords)
              /\ syncPc' = "getList"
              /\ runs' = [runs EXCEPT ![Len(runs)].status = status,
                                      ![Len(runs)].candidates =
                                          MapRecords(airtableRecords)]
              /\ UNCHANGED <<airtableRecords, pending_members, existingMembers,
                             newMembers, cursor>>
    /\ UNCHANGED syncFaults
    /\ UNCHANGED <<scannerVars, authVars>>

\* getList('pending_members') resolves: the two sets, the filter, and the
\* loop up to its first create
GetListPending ==
    /\ syncPc = "getList"
    /\ LET existing == FirstPage(pending_members)
           new == NewMembers(airtableMembers, existing)
           run == [ThisRun EXCEPT !.existing = existing]
       IN  IF new = <<>>
           THEN SyncReturns(run)
           ELSE /\ existingMembers' = existing
                /\ newMembers' = new
                /\ cursor' = 1
                /\ syncPc' = "create"
                /\ runs' = [runs EXCEPT ![Len(runs)] = run]
                /\ UNCHANGED airtableMembers
    /\ UNCHANGED <<airtableRecords, pending_members, syncFaults>>
    /\ UNCHANGED <<scannerVars, authVars>>

\* the for loop moves to its next member, or ends
NextMember_stops(run) ==
    SyncReturns(run)

NextMember(run) ==
    IF cursor = Len(newMembers)
    THEN SyncReturns(run)
    ELSE /\ cursor' = cursor + 1
         /\ runs' = [runs EXCEPT ![Len(runs)] = run]
         /\ UNCHANGED <<syncPc, airtableMembers, existingMembers, newMembers>>

\* `await dataProvider.create('pending_members', ...)` resolves
CreateResolved ==
    /\ syncPc = "create"
    /\ pending_members' = Created(pending_members, newMembers[cursor])
    /\ NextMember([ThisRun EXCEPT !.attempted = Append(@, newMembers[cursor]),
                                  !.created = @ + 1])
    /\ UNCHANGED <<airtableRecords, syncFaults>>
    /\ UNCHANGED <<scannerVars, authVars>>

\* `await dataProvider.create(...)` rejects: the catch inside the loop
CreateRejected ==
    /\ syncPc = "create"
    /\ syncFaults < MaxSyncFaults
    /\ syncFaults' = syncFaults + 1
    /\ NextMember([ThisRun EXCEPT !.attempted = Append(@, newMembers[cursor])])
    /\ UNCHANGED <<airtableRecords, pending_members>>
    /\ UNCHANGED <<scannerVars, authVars>>

NextSync ==
    \/ StartSync
    \/ SyncRejected
    \/ FetchResponse
    \/ GetListPending
    \/ CreateResolved
    \/ CreateRejected

SpecSync == InitSync /\ [][NextSync]_vars



\* ============================================================ authProvider
\* what the login form can send, and what the server can answer
Usernames == {"", "u1@x.com", "u2@x.com"}
Passwords == {"p1", "p2"}
Roles == {"", "admin"}
ErrorStatuses == {401, 403, 404, 500}

\* the bcrypt hash of a password
Hash(password) ==
    IF password = "p1" THEN "h1" ELSE "h2"

\* the rows of site_users the API can answer with
SiteUsers ==
    [password : {Hash(w) : w \in Passwords}, role : Roles]

\* bcrypt.compare(password, user.password)
BcryptCompare(password, hash) ==
    Hash(password) = hash

\* response.ok
ResponseOk(status) ==
    status >= 200 /\ status <= 299

\* JavaScript truthiness of localStorage.getItem(key): null and "" are falsy
Truthy(item) ==
    item # <<>> /\ item[1] # ""

\* user.role || 'base'
RoleOrBase(role) ==
    IF role = "" THEN "base" ELSE role

SessionExpired_only401(status) ==
    status = 401

\* status === 401 || status === 403
SessionExpired(status) ==
    status = 401 \/ status = 403

\* checkAuth: localStorage.getItem("username") ? resolve : reject
CheckAuthResolves ==
    Truthy(lsUsername)

authLocals == <<loginPc, loginUsername, loginPassword, loginUser>>
notAuthVars == <<scannerVars, syncVars>>

\* the two localStorage.removeItem calls
RemoveSession ==
    /\ lsUsername' = <<>>
    /\ lsRole' = <<>>

\* authProvider.login(...) up to `await fetch(...)`
Login ==
    /\ loginPc = "idle"
    /\ authOps < MaxAuthOps
    /\ authOps' = authOps + 1
    /\ \E username \in Usernames, password \in Passwords :
         /\ loginUsername' = username
         /\ loginPassword' = password
    /\ loginPc' = "fetch"
    /\ loginResult' = "pending"
    /\ lastCall' = [op |-> "login", status |-> 0]
    /\ UNCHANGED <<lsUsername, lsRole, loginUser, lastChange, lastCheck>>
    /\ UNCHANGED notAuthVars

\* the catch block of login: log, then throw
LoginThrows(why) ==
    /\ loginPc' = "idle"
    /\ loginUsername' = ""
    /\ loginPassword' = ""
    /\ loginUser' = [password |-> "", role |-> ""]
    /\ loginResult' = why
    /\ UNCHANGED <<lsUsername, lsRole, lastChange>>

\* the fetch of site_users settles: response.ok, response.json(), users[0]
LoginFetched ==
    /\ loginPc = "fetch"
    /\ \/ LoginThrows("network")
       \/ \E status \in Statuses :
            IF ~ResponseOk(status)
            THEN LoginThrows("network")
            ELSE \/ LoginThrows("user_not_found")
                 \/ \E user \in SiteUsers :
                      /\ loginUser' = user
                      /\ loginPc' = "compare"
                      /\ UNCHANGED <<lsUsername, lsRole, loginUsername, loginPassword,
                                     lastChange, loginResult>>
    /\ UNCHANGED <<authOps, lastCall, lastCheck>>
    /\ UNCHANGED notAuthVars

\* bcrypt.compare settles: the two setItem calls, or 'Invalid password'
LoginCompared ==
    /\ loginPc = "compare"
    /\ IF BcryptCompare(loginPassword, loginUser.password)
       THEN /\ lsUsername' = <<loginUsername>>
            /\ lsRole' = <<RoleOrBase(loginUser.role)>>
            /\ lastChange' = [op |-> "login", username |-> loginUsername]
            /\ loginPc' = "idle"
            /\ loginUsername' = ""
            /\ loginPassword' = ""
            /\ loginUser' = [password |-> "", role |-> ""]
            /\ loginResult' = "ok"
       ELSE LoginThrows("invalid_password")
    /\ UNCHANGED <<authOps, lastCall, lastCheck>>
    /\ UNCHANGED notAuthVars

Logout ==
    /\ authOps < MaxAuthOps
    /\ authOps' = authOps + 1
    /\ RemoveSession
    /\ lastChange' = [op |-> "logout", username |-> ""]
    /\ lastCall' = [op |-> "logout", status |-> 0]
    /\ UNCHANGED <<authLocals, loginResult, lastCheck>>
    /\ UNCHANGED notAuthVars

CheckError ==
    /\ authOps < MaxAuthOps
    /\ authOps' = authOps + 1
    /\ \E status \in ErrorStatuses :
         /\ lastCall' = [op |-> "checkError", status |-> status]
         /\ IF SessionExpired(status)
            THEN /\ RemoveSession
                 /\ lastChange' = [op |-> "checkError", username |-> ""]
            ELSE UNCHANGED <<lsUsername, lsRole, lastChange>>
    /\ UNCHANGED <<authLocals, loginResult, lastCheck>>
    /\ UNCHANGED notAuthVars

CheckAuth ==
    /\ authOps < MaxAuthOps
    /\ authOps' = authOps + 1
    /\ lastCheck' = IF CheckAuthResolves THEN "resolved" ELSE "rejected"
    /\ lastCall' = [op |-> "checkAuth", status |-> 0]
    /\ UNCHANGED <<lsUsername, lsRole, authLocals, lastChange, loginResult>>
    /\ UNCHANGED notAuthVars

InitAuth ==
    /\ ScannersOff
    /\ SyncOff
    /\ AuthOff

NextAuth ==
    \/ Login
    \/ LoginFetched
    \/ LoginCompared
    \/ Logout
    \/ CheckError
    \/ CheckAuth

SpecAuth == InitAuth /\ [][NextAuth]_vars

\* ------------------------------------------------- claims on authProvider
\* this step is a call of the method op
Calls(op) ==
    authOps' = authOps + 1 /\ lastCall'.op = op

\* this step ends a login that failed
LoginFails ==
    /\ loginPc # "idle" /\ loginPc' = "idle"
    /\ loginResult' \in {"network", "user_not_found", "invalid_password"}

SessionUnchanged ==
    lsUsername' = lsUsername /\ lsRole' = lsRole

ExpectedNew(r) ==
    SelectSeq(r.candidates,
              LAMBDA c : \A k \in DOMAIN r.existing :
                            /\ c.airtable_id # r.existing[k].airtable_id
                            /\ ToLower(c.email) # ToLower(r.existing[k].email))

\* run r ended normally and each of its creates succeeded
Clean(r) ==
    r.outcome = "done" /\ r.created = Len(r.attempted)

IsPrefix(p, q) ==
    Len(p) <= Len(q) /\ \A k \in DOMAIN p : p[k] = q[k]

C16_PendingUnique ==
    (\A j, k \in DOMAIN airtableRecords :
        j # k => airtableRecords[j].id # airtableRecords[k].id)
    => Unique(pending_members)

\* C21: a run that ended normally returned {created, skipped}: the number of
\* rows it created, and the number of its candidates it did not create.
C21_ReturnsCounts ==
    \A k \in DOMAIN runs :
        runs[k].outcome = "done"
        => runs[k].returned =
              <<[created |-> runs[k].created,
                 skipped |-> Len(runs[k].candidates) - runs[k].created]>>

\* C17: the creates a run attempts are, in order, those of its candidates
\* whose airtable_id and whose lower-cased e-mail address are both absent
\* from the rows it read (lower-cased too): all of them once the run is
\* done, the first ones while it is in its loop, none before.
C17_CreateIffNew ==
    \A k \in DOMAIN runs :
        /\ IsPrefix(runs[k].attempted, ExpectedNew(runs[k]))
        /\ runs[k].outcome = "done" => runs[k].attempted = ExpectedNew(runs[k])
        /\ (k = Len(runs) /\ syncPc = "create")
           => /\ cursor = Len(runs[k].attempted) + 1
              /\ newMembers = ExpectedNew(runs[k])

C17_Witness ==
    \E k \in DOMAIN runs :
        /\ runs[k].outcome = "done"
        /\ Len(runs[k].existing) = 1
        /\ runs[k].existing[1].email = "a@x.com"
        /\ Len(runs[k].candidates) = 2
        /\ runs[k].candidates[1].email = "A@x.com"
        /\ runs[k].candidates[1].airtable_id # runs[k].existing[1].airtable_id
        /\ Len(runs[k].attempted) = 1
        /\ runs[k].attempted[1] = runs[k].candidates[2]

\* C18: a run in which a create was rejected does not fail: it goes on to
\* attempt a create for every new candidate and ends normally.
C18_BatchSurvivesCreateFailure ==
    \A k \in DOMAIN runs :
        runs[k].created < Len(runs[k].attempted)
        => /\ runs[k].outcome # "failed"
           /\ (k < Len(runs) \/ syncPc = "idle")
              => /\ runs[k].outcome = "done"
                 /\ Len(runs[k].attempted) = Len(ExpectedNew(runs[k]))

C18_Witness ==
    \E k \in DOMAIN runs :
        /\ runs[k].outcome = "done"
        /\ runs[k].before = <<>>
        /\ Len(runs[k].attempted) = 2
        /\ runs[k].created = 1
        /\ k = Len(runs)
        /\ Len(pending_members) = 1
        /\ pending_members[1].airtable_id = runs[k].attempted[2].airtable_id
        /\ pending_members[1].airtable_id # runs[k].attempted[1].airtable_id

\* C19: a run that failed (the fetch failed or answered with a status of 400
\* or more, or the read of pending_members failed) attempted no create and
\* left pending_members as it was; and a run ends failed exactly when it
\* ends before its read of pending_members succeeded.
C19_FailsAsAWhole ==
    /\ [](\A k \in DOMAIN runs :
            /\ runs[k].status >= 400 => runs[k].outcome = "failed"
            /\ runs[k].outcome = "failed"
               => /\ runs[k].attempted = <<>>
                  /\ runs[k].created = 0
                  /\ k = Len(runs) => pending_members = runs[k].before)
    /\ [][(syncPc \in {"fetch", "getList"} /\ syncPc' = "idle")
          => /\ pending_members' = pending_members
             /\ (runs'[Len(runs)].outcome = "failed")
                <=> ~(syncPc = "getList" /\ syncFaults' = syncFaults)]_vars

C19_Witness ==
    /\ Len(runs) = 2
    /\ runs[1].outcome = "done"
    /\ runs[1].created = 1
    /\ runs[2].outcome = "failed"
    /\ runs[2].status = 400
    /\ Len(airtableRecords) = 2

\* ------------------------------------------------ claims on one call's log
ReadOps ==
    {"getList", "getOne"}

WriteOps ==
    {"updateMember", "updateMemberType", "createScanLog", "createRedeemLog"}

\* the order of the awaits in processQrScan
CallOrder ==
    <<"getList", "getOne", "updateMember", "updateMemberType", "createScanLog",
      "createRedeemLog">>

\* the writes of scanner s's call that the store applied
Applied(s) ==
    {k \in DOMAIN callLog[s] : callLog[s][k].op \in WriteOps /\ callLog[s][k].ok}

\* scanner s's last call has ended in a failure
Failed(s) ==
    pc[s] = "idle" /\ notice[s] \in {"error", "no_member", "no_member_type"}

\* C11: a call that fails in step 1 or 2 (no member, no member type, or a
\* rejected read) has had no write applied, and the steps that complete its
\* two reads leave all four resources as they are.
C11_NoWriteOnReadFailure ==
    /\ [](\A s \in Scanners :
            ( /\ Failed(s)
              /\ callLog[s] # <<>>
              /\ callLog[s][Len(callLog[s])].op \in ReadOps )
            => Applied(s) = {})
    /\ [][\A s \in Scanners :
            (pc[s] \in ReadOps /\ pc'[s] # pc[s]) => UNCHANGED storeVars]_vars

C11_Witness ==
    \E s \in Scanners :
        /\ Failed(s)
        /\ notice[s] = "no_member_type"
        /\ Len(callLog[s]) = 2
        /\ Len(scan_logs) = 1

\* C12: a call whose code matches more than one member has no write applied.
C12_AmbiguousCodeAborts ==
    \A s \in Scanners :
        (InFlight(s) /\ Cardinality(WithCode(qrCode[s])) > 1) => Applied(s) = {}

\* C13: a call that failed after one of its writes was applied reports
\* something other than "error", the message of a call that failed with no
\* write applied.
C13_PartialCommitReported ==
    \A s \in Scanners :
        (Failed(s) /\ Applied(s) # {}) => notice[s] # "error"

\* C14: the store calls of one call complete, and the next one is issued, in
\* the order getList, getOne, update members, update member_types, create
\* scan_logs, create redeem_logs; each is issued only after the one before it
\* succeeded, and the create of redeem_logs only when rewardDue.
C14_WriteOrder ==
    \A s \in Scanners :
        /\ Len(callLog[s]) <= Len(CallOrder)
        /\ \A k \in DOMAIN callLog[s] :
             /\ callLog[s][k].op = CallOrder[k]
             /\ k < Len(callLog[s]) => callLog[s][k].ok
        /\ InFlight(s) => pc[s] = CallOrder[Len(callLog[s]) + 1]
        /\ pc[s] = "createRedeemLog" => rewardDue[s]

C14_Witness ==
    \E s \in Scanners :
        /\ pc[s] = "idle"
        /\ Len(callLog[s]) = 6
        /\ callLog[s][6].ok
        /\ Len(redeem_logs) = 1

\* C20: an idle scanner is paused only while its result dialog is open after
\* a successful scan; after a failed call it is not paused.
C20_ResumesAfterFailure ==
    \A s \in Scanners :
        /\ (pc[s] = "idle" /\ scanningPaused[s])
           => (openDialog[s] /\ notice[s] = "success")
        /\ Failed(s) => ~scanningPaused[s]

C20_Witness ==
    \E s \in Scanners :
        /\ Failed(s)
        /\ notice[s] = "error"
        /\ Applied(s) # {}
        /\ ~scanningPaused[s]

\* C22: in one call every store call is issued at most once, a rejected
\* store call is the call's last (the step that rejects it ends the call and
\* writes nothing), and over all calls there are no more member updates and
\* no more scan logs than calls started.
C22_NoStepTwice ==
    /\ [](/\ \A s \in Scanners :
              /\ \A j, k \in DOMAIN callLog[s] :
                   j # k => callLog[s][j].op # callLog[s][k].op
              /\ \A k \in DOMAIN callLog[s] :
                   ~callLog[s][k].ok => (k = Len(callLog[s]) /\ pc[s] = "idle")
          /\ Sum([i \in MemberIds |-> ledger[i].upd], MemberIds) <= calls
          /\ Len(scan_logs) <= calls
          /\ Len(redeem_logs) <= calls)
    /\ [][\A s \in Scanners :
            ( /\ Len(callLog'[s]) = Len(callLog[s]) + 1
              /\ ~callLog'[s][Len(callLog'[s])].ok )
            => (UNCHANGED storeVars /\ pc'[s] = "idle")]_vars

C22_Witness ==
    \E s \in Scanners :
        /\ pc[s] = "idle"
        /\ Len(callLog[s]) = 5
        /\ ~callLog[s][5].ok
        /\ scan_logs = <<>>
        /\ Sum([i \in MemberIds |-> ledger[i].upd], MemberIds) = 1

\* C25: a scanner with a call in flight or with its dialog open is paused,
\* and a call starts only on a scanner that is not paused, has no call in
\* flight and no dialog open; the step that starts it touches no resource.
C25_OneInFlight ==
    /\ [](\A s \in Scanners : (InFlight(s) \/ openDialog[s]) => scanningPaused[s])
    /\ [][calls' # calls
          => /\ UNCHANGED storeVars
             /\ \E s \in Scanners :
                  /\ ~scanningPaused[s] /\ pc[s] = "idle" /\ ~openDialog[s]
                  /\ pc'[s] = "getList" /\ scanningPaused'[s]
                  /\ \A o \in Scanners \ {s} : pc'[o] = pc[o]]_vars

C25_Witness ==
    \E s \in Scanners :
        /\ openDialog[s]
        /\ scanningPaused[s]
        /\ \E o \in Scanners \ {s} : InFlight(o) /\ Len(callLog[o]) >= 2

\* C26: when a call opens the dialog, rewardDueState becomes the rewardDue
\* that call computed, which is scans_required - (points + 1) <= 0 for the
\* member and member type it read; while the dialog is open the title is
\* shown exactly when the call went on to create a redeem log.
C26_TitleIffRewardDue ==
    /\ [](\A s \in Scanners :
            openDialog[s] =>
                (rewardDueState[s] <=> ( /\ Len(callLog[s]) = 6
                                         /\ callLog[s][6].op = "createRedeemLog" )))
    /\ [][\A s \in Scanners :
            (~openDialog[s] /\ openDialog'[s])
            => /\ rewardDueState'[s] <=> rewardDue[s]
               /\ rewardDue[s] <=>
                    (memberType[s].scans_required - (member[s].points + 1) <= 0)]_vars

C26_Witness ==
    \E s \in Scanners :
        /\ openDialog[s] /\ rewardDueState[s]
        /\ \E o \in Scanners \ {s} :
             openDialog[o] /\ ~rewardDueState[o] /\ dialogContent[o].points = 1

====
